---- MODULE Spec2Model ----
(***************************************************************************)
(* Harmonia back end: the appointments table, the handlers that write it   *)
(* (routers/appointments.py) and the patient risk engine that reads it     *)
(* (services/ml_services.py, the 6-factor scorer with accumulating         *)
(* reasons, and services/ml_sevices.py, the 4-factor scorer with           *)
(* first-match reasons).  Beside them: the third copy of the metric        *)
(* extractor (routers/ml_analysis.py), the free-slot query of              *)
(* routers/appointments.py, the requests table with its handlers           *)
(* (routers/requests.py), and calculate_patient_risk taken step by step    *)
(* for invocations that run side by side.                                  *)
(*                                                                         *)
(* Dates are day numbers; (now - apt.date).days is integer subtraction.    *)
(* Python floats are modelled by exact rationals [num, den] with den > 0.  *)
(* Over the day differences (-30 and above) and the list lengths (up to    *)
(* 12) the model uses, the truncated IEEE-754 sums of the scorers and the  *)
(* frequency comparisons agree with the exact values.                      *)
(***************************************************************************)
EXTENDS Integers, Sequences, FiniteSets, Bags

VARIABLES
    today,          \* datetime.now().date(), as a day number
    patients,       \* the patients table, in the order .all() yields it
    appointments,   \* the appointments table: a bag of rows
    returned,       \* the value returned by the call just made, or NoCall
    requests,       \* the requests table: a bag of rows
    calls           \* the calculate_patient_risk invocations in progress

vars == <<today, patients, appointments, returned, requests, calls>>

-----------------------------------------------------------------------------
(* models/models.py *)

AGENDADO == "agendado"
CONCLUIDO == "concluido"
CANCELADO == "cancelado"
REAGENDADO == "reagendado"

AppointmentStatus == {AGENDADO, CONCLUIDO, CANCELADO, REAGENDADO}

PSICOLOGO == "psicologo"
PACIENTE == "paciente"

BAIXO == "Baixo"
MODERADO == "Moderado"
ALTO == "Alto"

Patient(id, name, psychologist_id) ==
    [id |-> id, name |-> name, psychologist_id |-> psychologist_id]

Appointment(patient_id, psychologist_id, date, time, status) ==
    [patient_id |-> patient_id, psychologist_id |-> psychologist_id,
     date |-> date, time |-> time, status |-> status]

User(id, type) == [id |-> id, type |-> type]

PENDENTE == "pendente"
ACEITO == "aceito"
REJEITADO == "rejeitado"
RequestStatus == {PENDENTE, ACEITO, REJEITADO}

\* a row of the requests table: the columns the handlers test or update
\* (the patient's name and phone, the description, the urgency and the
\* preferred dates and times are stored and returned, never tested)
Request(patient_email, preferred_psychologist, status, notes, updated_at) ==
    [patient_email |-> patient_email,
     preferred_psychologist |-> preferred_psychologist,
     status |-> status, notes |-> notes, updated_at |-> updated_at]

-----------------------------------------------------------------------------
(* Python number arithmetic used by the engine, on exact rationals. *)

Rat(n, d) == [num |-> n, den |-> d]

\* a / b for an int a and a positive int b (true division)
TrueDiv(a, b) == Rat(a, b)

RatLess(a, b) == a.num * b.den < b.num * a.den

RatLeq(a, b) == a.num * b.den <= b.num * a.den

\* min(a, b) and max(a, b) of Python: the first argument unless the second is
\* strictly smaller (larger)
RatMin(a, b) == IF RatLess(b, a) THEN b ELSE a

RatMax(a, b) == IF RatLess(a, b) THEN b ELSE a

RatAdd(a, b) == Rat(a.num * b.den + b.num * a.den, a.den * b.den)

RatScale(a, k) == Rat(a.num * k, a.den)

\* n / a for an int n and a rational a > 0
IntDivRat(n, a) == Rat(n * a.den, a.num)

\* int(x): truncation toward zero
RatTrunc(a) ==
    IF a.num >= 0 THEN a.num \div a.den ELSE -((-a.num) \div a.den)

\* min(apt.date for apt in appointments), appointments not empty
MinDate(xs) ==
    CHOOSE d \in {xs[i].date : i \in 1..Len(xs)} :
        \A j \in 1..Len(xs) : d <= xs[j].date

-----------------------------------------------------------------------------
(* services/ml_services.py: the metric extractor.  `apts` is the list the  *)
(* caller passes and `now` the date the function reads from the clock.     *)

\* a slip: the last row of the list read for the first
days_since_last_of_last_row(apts, now) ==
    IF apts # <<>> THEN now - apts[Len(apts)].date ELSE 999

ml_services_days_since_last(apts, now) ==
    IF apts # <<>> THEN now - apts[1].date ELSE 999

ml_services_cancellation_rate(apts) ==
    LET canceled == Len(SelectSeq(apts, LAMBDA apt : apt.status = CANCELADO))
        total_appointments == Len(apts)
    IN  IF total_appointments > 0
        THEN TrueDiv(canceled, total_appointments)
        ELSE Rat(0, 1)

ml_services_frequency_per_month(apts, now) ==
    LET completed == Len(SelectSeq(apts, LAMBDA apt : apt.status = CONCLUIDO))
    IN  IF apts # <<>>
        THEN LET first_appointment == MinDate(apts)
                 months_active ==
                     RatMax(Rat(1, 1), TrueDiv(now - first_appointment, 30))
             IN  IntDivRat(completed, months_active)
        ELSE Rat(0, 1)

\* a slip: each window taken as the 30 days that end n days back
appointments_last_band(apts, now, n) ==
    Len(SelectSeq(apts, LAMBDA apt :
        n - 30 < now - apt.date /\ now - apt.date <= n))

ml_services_appointments_last(apts, now, n) ==
    Len(SelectSeq(apts, LAMBDA apt : now - apt.date <= n))

ml_services_recent_trend(apts, now) ==
    LET recent_completed ==
            Len(SelectSeq(apts, LAMBDA apt :
                apt.status = CONCLUIDO /\ now - apt.date <= 30))
        previous_completed ==
            Len(SelectSeq(apts, LAMBDA apt :
                apt.status = CONCLUIDO /\ 30 < now - apt.date
                                       /\ now - apt.date <= 60))
    IN  recent_completed - previous_completed

ml_services_extract_patient_metrics(apts, now) ==
    [total_appointments |-> Len(apts),
     completed_appointments |->
         Len(SelectSeq(apts, LAMBDA apt : apt.status = CONCLUIDO)),
     canceled_appointments |->
         Len(SelectSeq(apts, LAMBDA apt : apt.status = CANCELADO)),
     cancellation_rate |-> ml_services_cancellation_rate(apts),
     days_since_last |-> ml_services_days_since_last(apts, now),
     frequency_per_month |-> ml_services_frequency_per_month(apts, now),
     appointments_last_30 |-> ml_services_appointments_last(apts, now, 30),
     appointments_last_60 |-> ml_services_appointments_last(apts, now, 60),
     appointments_last_90 |-> ml_services_appointments_last(apts, now, 90),
     recent_trend |-> ml_services_recent_trend(apts, now),
     has_future_appointments |->
         Len(SelectSeq(apts, LAMBDA apt : apt.status = AGENDADO)) > 0]

(* services/ml_sevices.py: the metric extractor. *)

ml_sevices_days_since_last(apts, now) ==
    IF apts # <<>> THEN now - apts[1].date ELSE 999

\* a slip: the held sessions counted for the cancelled ones
cancellation_rate_of_completed(apts) ==
    LET canceled == Len(SelectSeq(apts, LAMBDA apt : apt.status = CONCLUIDO))
        total_appointments == Len(apts)
    IN  IF total_appointments > 0
        THEN TrueDiv(canceled, total_appointments)
        ELSE Rat(0, 1)

ml_sevices_cancellation_rate(apts) ==
    LET canceled == Len(SelectSeq(apts, LAMBDA apt : apt.status = CANCELADO))
        total_appointments == Len(apts)
    IN  IF total_appointments > 0
        THEN TrueDiv(canceled, total_appointments)
        ELSE Rat(0, 1)

ml_sevices_frequency_per_month(apts, now) ==
    LET completed == Len(SelectSeq(apts, LAMBDA apt : apt.status = CONCLUIDO))
    IN  IF apts # <<>>
        THEN LET first_appointment == MinDate(apts)
                 months_active ==
                     RatMax(Rat(1, 1), TrueDiv(now - first_appointment, 30))
             IN  IntDivRat(completed, months_active)
        ELSE Rat(0, 1)

ml_sevices_appointments_last(apts, now, n) ==
    Len(SelectSeq(apts, LAMBDA apt : now - apt.date <= n))

ml_sevices_recent_trend(apts, now) ==
    LET recent_completed ==
            Len(SelectSeq(apts, LAMBDA apt :
                apt.status = CONCLUIDO /\ now - apt.date <= 30))
        previous_completed ==
            Len(SelectSeq(apts, LAMBDA apt :
                apt.status = CONCLUIDO /\ 30 < now - apt.date
                                       /\ now - apt.date <= 60))
    IN  recent_completed - previous_completed

ml_sevices_extract_patient_metrics(apts, now) ==
    [total_appointments |-> Len(apts),
     completed_appointments |->
         Len(SelectSeq(apts, LAMBDA apt : apt.status = CONCLUIDO)),
     canceled_appointments |->
         Len(SelectSeq(apts, LAMBDA apt : apt.status = CANCELADO)),
     cancellation_rate |-> ml_sevices_cancellation_rate(apts),
     days_since_last |-> ml_sevices_days_since_last(apts, now),
     frequency_per_month |-> ml_sevices_frequency_per_month(apts, now),
     appointments_last_30 |-> ml_sevices_appointments_last(apts, now, 30),
     appointments_last_60 |-> ml_sevices_appointments_last(apts, now, 60),
     appointments_last_90 |-> ml_sevices_appointments_last(apts, now, 90),
     recent_trend |-> ml_sevices_recent_trend(apts, now),
     has_future_appointments |->
         Len(SelectSeq(apts, LAMBDA apt : apt.status = AGENDADO)) > 0]

(* routers/ml_analysis.py: the metric extractor. *)

ml_analysis_days_since_last(apts, now) ==
    IF apts # <<>> THEN now - apts[1].date ELSE 999

ml_analysis_cancellation_rate(apts) ==
    LET canceled == Len(SelectSeq(apts, LAMBDA apt : apt.status = CANCELADO))
        total_appointments == Len(apts)
    IN  IF total_appointments > 0
        THEN TrueDiv(canceled, total_appointments)
        ELSE Rat(0, 1)

\* a slip: every row counted, not only the sessions held
frequency_per_month_of_all_rows(apts, now) ==
    LET completed == Len(apts)
    IN  IF apts # <<>>
        THEN LET first_appointment == MinDate(apts)
                 months_active ==
                     RatMax(Rat(1, 1), TrueDiv(now - first_appointment, 30))
             IN  IntDivRat(completed, months_active)
        ELSE Rat(0, 1)

ml_analysis_frequency_per_month(apts, now) ==
    LET completed == Len(SelectSeq(apts, LAMBDA apt : apt.status = CONCLUIDO))
    IN  IF apts # <<>>
        THEN LET first_appointment == MinDate(apts)
                 months_active ==
                     RatMax(Rat(1, 1), TrueDiv(now - first_appointment, 30))
             IN  IntDivRat(completed, months_active)
        ELSE Rat(0, 1)

ml_analysis_appointments_last(apts, now, n) ==
    Len(SelectSeq(apts, LAMBDA apt : now - apt.date <= n))

ml_analysis_recent_trend(apts, now) ==
    LET recent_completed ==
            Len(SelectSeq(apts, LAMBDA apt :
                apt.status = CONCLUIDO /\ now - apt.date <= 30))
        previous_completed ==
            Len(SelectSeq(apts, LAMBDA apt :
                apt.status = CONCLUIDO /\ 30 < now - apt.date
                                       /\ now - apt.date <= 60))
    IN  recent_completed - previous_completed

ml_analysis_extract_patient_metrics(apts, now) ==
    [total_appointments |-> Len(apts),
     completed_appointments |->
         Len(SelectSeq(apts, LAMBDA apt : apt.status = CONCLUIDO)),
     canceled_appointments |->
         Len(SelectSeq(apts, LAMBDA apt : apt.status = CANCELADO)),
     cancellation_rate |-> ml_analysis_cancellation_rate(apts),
     days_since_last |-> ml_analysis_days_since_last(apts, now),
     frequency_per_month |-> ml_analysis_frequency_per_month(apts, now),
     appointments_last_30 |-> ml_analysis_appointments_last(apts, now, 30),
     appointments_last_60 |-> ml_analysis_appointments_last(apts, now, 60),
     appointments_last_90 |-> ml_analysis_appointments_last(apts, now, 90),
     recent_trend |-> ml_analysis_recent_trend(apts, now),
     has_future_appointments |->
         Len(SelectSeq(apts, LAMBDA apt : apt.status = AGENDADO)) > 0]

-----------------------------------------------------------------------------
(* services/ml_services.py: the 6-factor scorer, factor by factor. *)

ml_services_recency(metrics) ==
    LET days_factor ==
            RatMin(TrueDiv(metrics.days_since_last, 60), Rat(1, 1))
    IN  RatScale(days_factor, 30)

ml_services_cancellation(metrics) == RatScale(metrics.cancellation_rate, 25)

\* a slip: the two frequency weights exchanged
frequency_weights_exchanged(metrics) ==
    IF RatLess(metrics.frequency_per_month, Rat(1, 1)) THEN 10
    ELSE IF RatLess(metrics.frequency_per_month, Rat(2, 1)) THEN 20
    ELSE 0

ml_services_frequency(metrics) ==
    IF RatLess(metrics.frequency_per_month, Rat(1, 1)) THEN 20
    ELSE IF RatLess(metrics.frequency_per_month, Rat(2, 1)) THEN 10
    ELSE 0

ml_services_inactivity(metrics) ==
    IF metrics.appointments_last_30 = 0 THEN 15
    ELSE IF metrics.appointments_last_60 = 0 THEN 10
    ELSE 0

ml_services_trend(metrics) ==
    IF metrics.recent_trend < -1 THEN 10
    ELSE IF metrics.recent_trend < 0 THEN 5
    ELSE 0

ml_services_no_future(metrics) ==
    IF ~metrics.has_future_appointments THEN 5 ELSE 0

\* the value of `score` before the final int() and min()
ml_services_score_sum(metrics) ==
    RatAdd(RatAdd(ml_services_recency(metrics),
                  ml_services_cancellation(metrics)),
           Rat(ml_services_frequency(metrics)
               + ml_services_inactivity(metrics)
               + ml_services_trend(metrics)
               + ml_services_no_future(metrics), 1))

\* return min(int(score), 100)
ml_services_calculate_risk_score(metrics) ==
    LET truncated == RatTrunc(ml_services_score_sum(metrics))
    IN  IF truncated < 100 THEN truncated ELSE 100

ml_services_determine_risk_level(risk_score) ==
    IF risk_score >= 70 THEN ALTO
    ELSE IF risk_score >= 40 THEN MODERADO
    ELSE BAIXO

\* ", ".join(reasons)
JoinReasons(reasons) ==
    LET RECURSIVE join(_)
        join(i) == IF i = 1 THEN reasons[1]
                   ELSE join(i - 1) \o ", " \o reasons[i]
    IN  join(Len(reasons))

\* a slip: the trend tested against 0, as the first-match identifier does
identify_risk_reason_trend_below_0(metrics) ==
    LET reasons ==
            (IF metrics.days_since_last > 45
             THEN <<"Ausente há mais de 45 dias">>
             ELSE IF metrics.days_since_last > 30
             THEN <<"Ausente há mais de 30 dias">>
             ELSE <<>>)
         \o (IF RatLess(Rat(3, 10), metrics.cancellation_rate)
             THEN <<"Alta taxa de cancelamentos">>
             ELSE IF RatLess(Rat(2, 10), metrics.cancellation_rate)
             THEN <<"Cancelamentos frequentes">>
             ELSE <<>>)
         \o (IF RatLess(metrics.frequency_per_month, Rat(1, 1))
             THEN <<"Baixa frequência de consultas">> ELSE <<>>)
         \o (IF metrics.appointments_last_30 = 0
             THEN <<"Sem consultas no último mês">> ELSE <<>>)
         \o (IF metrics.recent_trend < 0
             THEN <<"Diminuição na frequência">> ELSE <<>>)
         \o (IF ~metrics.has_future_appointments
             THEN <<"Sem consultas futuras">> ELSE <<>>)
    IN  IF reasons # <<>> THEN JoinReasons(reasons)
        ELSE "Sem motivos críticos identificados"

\* a slip: the test of the frequency left out
identify_risk_reason_without_frequency(metrics) ==
    LET reasons ==
            (IF metrics.days_since_last > 45
             THEN <<"Ausente há mais de 45 dias">>
             ELSE IF metrics.days_since_last > 30
             THEN <<"Ausente há mais de 30 dias">>
             ELSE <<>>)
         \o (IF RatLess(Rat(3, 10), metrics.cancellation_rate)
             THEN <<"Alta taxa de cancelamentos">>
             ELSE IF RatLess(Rat(2, 10), metrics.cancellation_rate)
             THEN <<"Cancelamentos frequentes">>
             ELSE <<>>)
         \o (IF metrics.appointments_last_30 = 0
             THEN <<"Sem consultas no último mês">> ELSE <<>>)
         \o (IF metrics.recent_trend < -1
             THEN <<"Diminuição na frequência">> ELSE <<>>)
         \o (IF ~metrics.has_future_appointments
             THEN <<"Sem consultas futuras">> ELSE <<>>)
    IN  IF reasons # <<>> THEN JoinReasons(reasons)
        ELSE "Sem motivos críticos identificados"

ml_services_identify_risk_reason(metrics) ==
    LET reasons ==
            (IF metrics.days_since_last > 45
             THEN <<"Ausente há mais de 45 dias">>
             ELSE IF metrics.days_since_last > 30
             THEN <<"Ausente há mais de 30 dias">>
             ELSE <<>>)
         \o (IF RatLess(Rat(3, 10), metrics.cancellation_rate)
             THEN <<"Alta taxa de cancelamentos">>
             ELSE IF RatLess(Rat(2, 10), metrics.cancellation_rate)
             THEN <<"Cancelamentos frequentes">>
             ELSE <<>>)
         \o (IF RatLess(metrics.frequency_per_month, Rat(1, 1))
             THEN <<"Baixa frequência de consultas">> ELSE <<>>)
         \o (IF metrics.appointments_last_30 = 0
             THEN <<"Sem consultas no último mês">> ELSE <<>>)
         \o (IF metrics.recent_trend < -1
             THEN <<"Diminuição na frequência">> ELSE <<>>)
         \o (IF ~metrics.has_future_appointments
             THEN <<"Sem consultas futuras">> ELSE <<>>)
    IN  IF reasons # <<>> THEN JoinReasons(reasons)
        ELSE "Sem motivos críticos identificados"

(* services/ml_sevices.py: the 4-factor scorer, factor by factor. *)

ml_sevices_recency(metrics) ==
    LET days_factor ==
            RatMin(TrueDiv(metrics.days_since_last, 60), Rat(1, 1))
    IN  RatScale(days_factor, 30)

\* a slip: the cancellation rate weighted 30, as the recency is
cancellation_weighted_30(metrics) == RatScale(metrics.cancellation_rate, 30)

ml_sevices_cancellation(metrics) == RatScale(metrics.cancellation_rate, 25)

ml_sevices_frequency(metrics) ==
    IF RatLess(metrics.frequency_per_month, Rat(1, 1)) THEN 20
    ELSE IF RatLess(metrics.frequency_per_month, Rat(2, 1)) THEN 10
    ELSE 0

\* a slip: the 60-day test made before the 30-day test
inactivity_60_first(metrics) ==
    IF metrics.appointments_last_60 = 0 THEN 10
    ELSE IF metrics.appointments_last_30 = 0 THEN 15
    ELSE 0

ml_sevices_inactivity(metrics) ==
    IF metrics.appointments_last_30 = 0 THEN 15
    ELSE IF metrics.appointments_last_60 = 0 THEN 10
    ELSE 0

ml_sevices_score_sum(metrics) ==
    RatAdd(RatAdd(ml_sevices_recency(metrics),
                  ml_sevices_cancellation(metrics)),
           Rat(ml_sevices_frequency(metrics)
               + ml_sevices_inactivity(metrics), 1))

\* return int(min(score, 100))
ml_sevices_calculate_risk_score(metrics) ==
    RatTrunc(RatMin(ml_sevices_score_sum(metrics), Rat(100, 1)))

\* a slip: the thresholds taken as exclusive
determine_risk_level_exclusive(score) ==
    IF score <= 40 THEN BAIXO
    ELSE IF score <= 70 THEN MODERADO
    ELSE ALTO

ml_sevices_determine_risk_level(score) ==
    IF score < 40 THEN BAIXO
    ELSE IF score < 70 THEN MODERADO
    ELSE ALTO

\* a slip: the frequency tested before the cancellation rate
identify_risk_reason_frequency_first(metrics) ==
    IF metrics.days_since_last > 60
    THEN "Paciente há muito tempo sem consulta"
    ELSE IF RatLess(metrics.frequency_per_month, Rat(1, 1))
    THEN "Baixa frequência de sessões"
    ELSE IF RatLess(Rat(4, 10), metrics.cancellation_rate)
    THEN "Alta taxa de cancelamentos"
    ELSE IF metrics.appointments_last_30 = 0
    THEN "Nenhuma consulta recente"
    ELSE IF metrics.recent_trend < 0
    THEN "Queda na frequência de atendimentos"
    ELSE "Risco moderado, manter acompanhamento"

ml_sevices_identify_risk_reason(metrics) ==
    IF metrics.days_since_last > 60
    THEN "Paciente há muito tempo sem consulta"
    ELSE IF RatLess(Rat(4, 10), metrics.cancellation_rate)
    THEN "Alta taxa de cancelamentos"
    ELSE IF RatLess(metrics.frequency_per_month, Rat(1, 1))
    THEN "Baixa frequência de sessões"
    ELSE IF metrics.appointments_last_30 = 0
    THEN "Nenhuma consulta recente"
    ELSE IF metrics.recent_trend < 0
    THEN "Queda na frequência de atendimentos"
    ELSE "Risco moderado, manter acompanhamento"

-----------------------------------------------------------------------------
(* The queries and the roster ranker (calculate_patient_risk). *)

\* db.query(Patient).filter(Patient.psychologist_id == psychologist_id).all()
QueryPatients(db_patients, psychologist_id) ==
    SelectSeq(db_patients, LAMBDA p : p.psychologist_id = psychologist_id)

\* .order_by(Appointment.date.desc()).all() on a bag of rows.  The order of
\* rows of equal date is the database's; the engine reads only the date of
\* the first row and order-independent counts, so one order stands for all.
RECURSIVE OrderByDateDesc(_)
OrderByDateDesc(rows) ==
    IF rows = EmptyBag THEN <<>>
    ELSE LET r == CHOOSE x \in BagToSet(rows) :
                      \A y \in BagToSet(rows) : x.date >= y.date
         IN  <<r>> \o OrderByDateDesc(rows (-) SetToBag({r}))

\* the rows of one patient with one psychologist
FilterAppointments(db_appointments, patient_id, psychologist_id) ==
    LET keep == {r \in BagToSet(db_appointments) :
                    /\ r.patient_id = patient_id
                    /\ r.psychologist_id = psychologist_id}
    IN  [r \in keep |-> db_appointments[r]]

QueryAppointments(db_appointments, patient_id, psychologist_id) ==
    OrderByDateDesc(
        FilterAppointments(db_appointments, patient_id, psychologist_id))

\* a slip: the test for an empty history left out
ListIsEmptyNever(apts) == FALSE

\* `not appointments`
ListIsEmpty(apts) == apts = <<>>

\* a slip: reverse=True left out
RECURSIVE SortedByRiskScoreAsc(_)
SortedByRiskScoreAsc(xs) ==
    IF xs = <<>> THEN <<>>
    ELSE LET n == Len(xs)
             rest == SortedByRiskScoreAsc(SubSeq(xs, 1, n - 1))
             x == xs[n]
             k == Cardinality({i \in 1..Len(rest) :
                                  rest[i].risk_score <= x.risk_score})
         IN  SubSeq(rest, 1, k) \o <<x>> \o SubSeq(rest, k + 1, Len(rest))

\* a slip: a sort that puts an entry before the entries of equal score
RECURSIVE SortedByRiskScoreUnstable(_)
SortedByRiskScoreUnstable(xs) ==
    IF xs = <<>> THEN <<>>
    ELSE LET n == Len(xs)
             rest == SortedByRiskScoreUnstable(SubSeq(xs, 1, n - 1))
             x == xs[n]
             k == Cardinality({i \in 1..Len(rest) :
                                  rest[i].risk_score > x.risk_score})
         IN  SubSeq(rest, 1, k) \o <<x>> \o SubSeq(rest, k + 1, Len(rest))

\* sorted(risk_analysis, key=lambda x: x["risk_score"], reverse=True):
\* stable, entries of equal score keep their order
RECURSIVE SortedByRiskScoreDesc(_)
SortedByRiskScoreDesc(xs) ==
    IF xs = <<>> THEN <<>>
    ELSE LET n == Len(xs)
             rest == SortedByRiskScoreDesc(SubSeq(xs, 1, n - 1))
             x == xs[n]
             k == Cardinality({i \in 1..Len(rest) :
                                  rest[i].risk_score >= x.risk_score})
         IN  SubSeq(rest, 1, k) \o <<x>> \o SubSeq(rest, k + 1, Len(rest))

None == "None"

\* appointments[0].date.isoformat() if appointments else None; the day
\* number stands for its ISO string
LastAppointment(apts) == IF apts # <<>> THEN apts[1].date ELSE None

ml_services_risk_entry(patient, apts, now) ==
    LET metrics == ml_services_extract_patient_metrics(apts, now)
        risk_score == ml_services_calculate_risk_score(metrics)
    IN  [id |-> patient.id,
         patient |-> patient.name,
         risk |-> ml_services_determine_risk_level(risk_score),
         risk_score |-> risk_score,
         reason |-> ml_services_identify_risk_reason(metrics),
         last_appointment |-> LastAppointment(apts),
         metrics |-> metrics]

ml_services_calculate_patient_risk(db, psychologist_id, now) ==
    LET pats == QueryPatients(db.patients, psychologist_id)
        RECURSIVE loop(_)
        loop(i) ==
            IF i = 0 THEN <<>>
            ELSE LET apts == QueryAppointments(db.appointments, pats[i].id,
                                               psychologist_id)
                 IN  IF ListIsEmpty(apts) THEN loop(i - 1)
                     ELSE Append(loop(i - 1),
                                 ml_services_risk_entry(pats[i], apts, now))
    IN  SortedByRiskScoreDesc(loop(Len(pats)))

ml_sevices_risk_entry(patient, apts, now) ==
    LET metrics == ml_sevices_extract_patient_metrics(apts, now)
        risk_score == ml_sevices_calculate_risk_score(metrics)
    IN  [id |-> patient.id,
         patient |-> patient.name,
         risk |-> ml_sevices_determine_risk_level(risk_score),
         risk_score |-> risk_score,
         reason |-> ml_sevices_identify_risk_reason(metrics),
         last_appointment |-> LastAppointment(apts),
         metrics |-> metrics]

ml_sevices_calculate_patient_risk(db, psychologist_id, now) ==
    LET pats == QueryPatients(db.patients, psychologist_id)
        RECURSIVE loop(_)
        loop(i) ==
            IF i = 0 THEN <<>>
            ELSE LET apts == QueryAppointments(db.appointments, pats[i].id,
                                               psychologist_id)
                 IN  IF ListIsEmpty(apts) THEN loop(i - 1)
                     ELSE Append(loop(i - 1),
                                 ml_sevices_risk_entry(pats[i], apts, now))
    IN  SortedByRiskScoreDesc(loop(Len(pats)))

-----------------------------------------------------------------------------
(* Bounds and input domains. *)

MaxRows == 3        \* rows in the appointments table
MaxTicks == 1       \* midnights that pass
MaxCancelled == 9   \* cancelled rows in a long history
Today0 == 100       \* the day number the clock starts at

Times == {"09:00"}

Psychologists == {User(1, PSICOLOGO), User(2, PSICOLOGO)}

\* one psychologist with one patient; dates a month ahead, today and one,
\* two and three months back
EnginePatients == <<Patient(1, "Ana", 1)>>
EngineDates == {Today0 + 30, Today0, Today0 - 30, Today0 - 60, Today0 - 90}
ScorerDates == {Today0, Today0 - 30, Today0 - 60}

\* two psychologists, the first with two patients
RosterPatients ==
    <<Patient(1, "Ana", 1), Patient(2, "Bruno", 1), Patient(3, "Caio", 2)>>
RosterDates == {Today0, Today0 - 60}

NoCall == [op |-> "none"]

\* the invocations of calculate_patient_risk that may run side by side
Invocations == {1, 2}

\* an invocation that has not been called, or has returned and been read
Idle == [pc |-> "idle"]

NoCalls == [c \in Invocations |-> Idle]

Db == [patients |-> patients, appointments |-> appointments]

-----------------------------------------------------------------------------
(* The handlers.  A handler that raises HTTPException leaves the tables as *)
(* they are: that branch is a stuttering step.                             *)

\* POST /appointments (routers/appointments.py)
create_appointment(appointment_data) ==
    LET existing_appointment ==
            {r \in BagToSet(appointments) :
                /\ r.psychologist_id = appointment_data.psychologist_id
                /\ r.date = appointment_data.date
                /\ r.status = AGENDADO}
        db_appointment ==
            Appointment(appointment_data.patient_id,
                        appointment_data.psychologist_id,
                        appointment_data.date, appointment_data.time,
                        AGENDADO)
    IN  /\ existing_appointment = {}
        /\ appointments' = appointments (+) SetToBag({db_appointment})
        /\ returned' = NoCall
        /\ UNCHANGED <<today, patients, requests, calls>>

\* PUT /appointments/{id}: update_data holds the fields that were sent
update_appointment(appointment, update_data, current_user) ==
    /\ appointment \in BagToSet(appointments)
    /\ ~(/\ current_user.type = PSICOLOGO
         /\ appointment.psychologist_id # current_user.id)
    /\ LET updated ==
               [f \in DOMAIN appointment |->
                   IF f \in DOMAIN update_data THEN update_data[f]
                   ELSE appointment[f]]
       IN  appointments' =
               (appointments (-) SetToBag({appointment}))
                   (+) SetToBag({updated})
    /\ returned' = NoCall
    /\ UNCHANGED <<today, patients, requests, calls>>

\* DELETE /appointments/{id}
cancel_appointment(appointment) ==
    /\ appointment \in BagToSet(appointments)
    /\ appointments' =
           (appointments (-) SetToBag({appointment}))
               (+) SetToBag({[appointment EXCEPT !.status = CANCELADO]})
    /\ returned' = NoCall
    /\ UNCHANGED <<today, patients, requests, calls>>

\* POST /requests (routers/requests.py)
create_request(request_data) ==
    LET existing_request ==
            {r \in BagToSet(requests) :
                /\ r.patient_email = request_data.patient_email
                /\ r.preferred_psychologist =
                       request_data.preferred_psychologist
                /\ r.status = PENDENTE}
        db_request ==
            Request(request_data.patient_email,
                    request_data.preferred_psychologist, PENDENTE, "", <<>>)
    IN  /\ existing_request = {}
        /\ requests' = requests (+) SetToBag({db_request})
        /\ returned' = NoCall
        /\ UNCHANGED <<today, patients, appointments, calls>>

\* PUT /requests/{id}; updated_at is <<>> when NULL and <<day>> when set,
\* datetime.now() kept to the day
update_request_status(request, update_data, current_user) ==
    /\ current_user.type = PSICOLOGO
    /\ request \in BagToSet(requests)
    /\ request.preferred_psychologist = current_user.id
    /\ LET updated ==
               [request EXCEPT
                   !.status = update_data.status,
                   !.notes = IF update_data.notes = None THEN ""
                             ELSE update_data.notes,
                   !.updated_at = <<today>>]
       IN  requests' = (requests (-) SetToBag({request}))
                           (+) SetToBag({updated})
    /\ returned' = NoCall
    /\ UNCHANGED <<today, patients, appointments, calls>>

\* the hours of a day that can be booked
all_slots ==
    <<"09:00", "10:00", "11:00", "14:00", "15:00", "16:00", "17:00">>

\* GET /appointments/available-slots; the date string stands for its day
get_available_slots(date, psychologist_id) ==
    LET occupied_slots ==
            {r \in BagToSet(appointments) :
                /\ r.date = date
                /\ r.psychologist_id = psychologist_id
                /\ r.status = AGENDADO}
        occupied_times == {slot.time : slot \in occupied_slots}
        available_slots ==
            SelectSeq(all_slots, LAMBDA slot : slot \notin occupied_times)
    IN  /\ returned' =
               [op |-> "get_available_slots", date |-> date,
                psychologist_id |-> psychologist_id,
                body |-> available_slots]
        /\ UNCHANGED <<today, patients, appointments, requests, calls>>

\* the roster ranker of services/ml_services.py, called for one psychologist
ml_services_request(psychologist_id) ==
    /\ returned' =
           [op |-> "ml_services", psychologist_id |-> psychologist_id,
            body |-> ml_services_calculate_patient_risk(Db, psychologist_id,
                                                        today)]
    /\ UNCHANGED <<today, patients, appointments, requests, calls>>

\* the roster ranker of services/ml_sevices.py
ml_sevices_request(psychologist_id) ==
    /\ returned' =
           [op |-> "ml_sevices", psychologist_id |-> psychologist_id,
            body |-> ml_sevices_calculate_patient_risk(Db, psychologist_id,
                                                       today)]
    /\ UNCHANGED <<today, patients, appointments, requests, calls>>

\* midnight: datetime.now().date() moves to the next day
Midnight ==
    /\ today < Today0 + MaxTicks
    /\ today' = today + 1
    /\ returned' = NoCall
    /\ UNCHANGED <<patients, appointments, requests, calls>>

-----------------------------------------------------------------------------
(* Spec: the roster of two psychologists; rows are booked and cancelled.  *)

Init ==
    /\ today = Today0
    /\ patients = RosterPatients
    /\ appointments = EmptyBag
    /\ returned = NoCall
    /\ requests = EmptyBag
    /\ calls = NoCalls

RosterCreate ==
    /\ BagCardinality(appointments) < MaxRows
    /\ \E p \in 1..3, psy \in 1..2, d \in RosterDates, t \in Times :
           create_appointment([patient_id |-> p, psychologist_id |-> psy,
                               date |-> d, time |-> t])

RosterCancel == \E r \in BagToSet(appointments) : cancel_appointment(r)

RosterRank ==
    \E psy \in 1..2 : ml_services_request(psy) \/ ml_sevices_request(psy)

Next == RosterCreate \/ RosterCancel \/ RosterRank

Spec == Init /\ [][Next]_vars

-----------------------------------------------------------------------------
(* SpecEngine: one patient; rows of every status over the engine's dates. *)

InitEngine ==
    /\ today = Today0
    /\ patients = EnginePatients
    /\ appointments = EmptyBag
    /\ returned = NoCall
    /\ requests = EmptyBag
    /\ calls = NoCalls

EngineCreate ==
    /\ BagCardinality(appointments) < MaxRows
    /\ \E d \in EngineDates, t \in Times :
           create_appointment([patient_id |-> 1, psychologist_id |-> 1,
                               date |-> d, time |-> t])

EngineUpdate ==
    \E r \in BagToSet(appointments), s \in AppointmentStatus,
       u \in Psychologists :
        update_appointment(r, [status |-> s], u)

EngineCancel == \E r \in BagToSet(appointments) : cancel_appointment(r)

EngineRank == ml_services_request(1) \/ ml_sevices_request(1)

NextEngine ==
    EngineCreate \/ EngineUpdate \/ EngineCancel \/ EngineRank \/ Midnight

SpecEngine == InitEngine /\ [][NextEngine]_vars

-----------------------------------------------------------------------------
(* SpecScorer: one patient; rows of every status dated today and one and  *)
(* two months back.                                                       *)

ScorerCreate ==
    /\ BagCardinality(appointments) < MaxRows
    /\ \E d \in ScorerDates, t \in Times :
           create_appointment([patient_id |-> 1, psychologist_id |-> 1,
                               date |-> d, time |-> t])

NextScorer ==
    ScorerCreate \/ EngineUpdate \/ EngineCancel \/ EngineRank \/ Midnight

SpecScorer == InitEngine /\ [][NextScorer]_vars

-----------------------------------------------------------------------------
(* SpecAnyOrder: _extract_patient_metrics called on the rows of the        *)
(* patient in every order, beside the ranker, which passes them in         *)
(* descending order of date.                                               *)

\* the lists that hold the rows of a bag, in every order
RECURSIVE ListsOf(_)
ListsOf(rows) ==
    IF rows = EmptyBag THEN {<<>>}
    ELSE UNION {{<<r>> \o l : l \in ListsOf(rows (-) SetToBag({r}))} :
                   r \in BagToSet(rows)}

ml_services_extract_call(apts) ==
    /\ returned' =
           [op |-> "ml_services_extract", appointments |-> apts,
            metrics |-> ml_services_extract_patient_metrics(apts, today)]
    /\ UNCHANGED <<today, patients, appointments, requests, calls>>

ml_sevices_extract_call(apts) ==
    /\ returned' =
           [op |-> "ml_sevices_extract", appointments |-> apts,
            metrics |-> ml_sevices_extract_patient_metrics(apts, today)]
    /\ UNCHANGED <<today, patients, appointments, requests, calls>>

ml_analysis_extract_call(apts) ==
    /\ returned' =
           [op |-> "ml_analysis_extract", appointments |-> apts,
            metrics |-> ml_analysis_extract_patient_metrics(apts, today)]
    /\ UNCHANGED <<today, patients, appointments, requests, calls>>

AnyOrderExtract ==
    \E apts \in ListsOf(FilterAppointments(appointments, 1, 1)) :
        \/ ml_services_extract_call(apts)
        \/ ml_sevices_extract_call(apts)
        \/ ml_analysis_extract_call(apts)

NextAnyOrder ==
    \/ ScorerCreate
    \/ EngineCancel
    \/ AnyOrderExtract
    \/ EngineRank
    \/ Midnight

SpecAnyOrder == InitEngine /\ [][NextAnyOrder]_vars

-----------------------------------------------------------------------------
(* SpecCopies: the three copies of _extract_patient_metrics called on the  *)
(* history of the patient as the ranker's query yields it, over rows of    *)
(* every status.                                                           *)

CopiesExtract ==
    LET apts == QueryAppointments(appointments, 1, 1)
    IN  \/ ml_services_extract_call(apts)
        \/ ml_sevices_extract_call(apts)
        \/ ml_analysis_extract_call(apts)

NextCopies ==
    ScorerCreate \/ EngineUpdate \/ EngineCancel \/ CopiesExtract \/ Midnight

SpecCopies == InitEngine /\ [][NextCopies]_vars

-----------------------------------------------------------------------------
(* SpecScenario: a patient with ten rows, five of them cancelled, all      *)
(* dated more than 90 days back.                                           *)

ScenarioDates == <<Today0 - 91, Today0 - 151>>

\* the date and status of a row that is not cancelled
ScenarioOthers ==
    <<[date |-> ScenarioDates[1], status |-> AGENDADO],
      [date |-> ScenarioDates[1], status |-> CONCLUIDO],
      [date |-> ScenarioDates[1], status |-> REAGENDADO],
      [date |-> ScenarioDates[2], status |-> AGENDADO],
      [date |-> ScenarioDates[2], status |-> CONCLUIDO],
      [date |-> ScenarioDates[2], status |-> REAGENDADO]>>

\* the table of k rows cancelled at the first date, 5 - k at the second,
\* and the five other rows others[1..5]
RECURSIVE ScenarioRows(_, _, _)
ScenarioRows(k, others, i) ==
    IF i = 0 THEN EmptyBag
    ELSE ScenarioRows(k, others, i - 1)
         (+) SetToBag({Appointment(1, 1,
                           IF i <= k THEN ScenarioDates[1]
                           ELSE ScenarioDates[2],
                           "09:00", CANCELADO)})
         (+) SetToBag({Appointment(1, 1, ScenarioOthers[others[i]].date,
                           "09:00", ScenarioOthers[others[i]].status)})

InitScenario ==
    /\ today = Today0
    /\ patients = EnginePatients
    /\ returned = NoCall
    /\ requests = EmptyBag
    /\ calls = NoCalls
    /\ \E k \in 0..5, others \in [1..5 -> 1..Len(ScenarioOthers)] :
           /\ \A i \in 1..4 : others[i] <= others[i + 1]
           /\ appointments = ScenarioRows(k, others, 5)

NextScenario == EngineRank \/ Midnight

SpecScenario == InitScenario /\ [][NextScenario]_vars

-----------------------------------------------------------------------------
(* SpecBooking: the bookings of one psychologist over two days and two     *)
(* hours; a row's date, time or status may be updated.                      *)

BookingDates == {Today0 + 1, Today0 + 2}
BookingTimes == {"09:00", "10:00"}

\* the fields an update may send: the date, the time or the status
BookingUpdates ==
    {[status |-> st] : st \in AppointmentStatus}
        \cup {[date |-> d] : d \in BookingDates}
        \cup {[time |-> t] : t \in BookingTimes}

BookingCreate ==
    /\ BagCardinality(appointments) < MaxRows
    /\ \E d \in BookingDates, t \in BookingTimes :
           create_appointment([patient_id |-> 1, psychologist_id |-> 1,
                               date |-> d, time |-> t])

BookingUpdate ==
    \E r \in BagToSet(appointments), update_data \in BookingUpdates,
       u \in Psychologists :
        update_appointment(r, update_data, u)

BookingSlots ==
    \E d \in BookingDates, psy \in 1..2 : get_available_slots(d, psy)

NextBooking ==
    BookingCreate \/ BookingUpdate \/ EngineCancel \/ BookingSlots

SpecBooking == InitEngine /\ [][NextBooking]_vars

-----------------------------------------------------------------------------
(* SpecRequests: two patients ask two psychologists for care; the         *)
(* psychologists answer, and any user may try to.                          *)

Emails == {"ana@mail", "bruno@mail"}
Users == Psychologists \cup {User(3, PACIENTE)}

RequestsCreate ==
    /\ BagCardinality(requests) < MaxRows
    /\ \E e \in Emails, psy \in 1..2 :
           create_request([patient_email |-> e,
                           preferred_psychologist |-> psy])

RequestsUpdate ==
    \E r \in BagToSet(requests), st \in RequestStatus,
       n \in {None, "ok"}, u \in Users :
        update_request_status(r, [status |-> st, notes |-> n], u)

NextRequests == RequestsCreate \/ RequestsUpdate

SpecRequests == InitEngine /\ [][NextRequests]_vars

-----------------------------------------------------------------------------
(* SpecConcurrent: calculate_patient_risk step by step.  Invocation c is   *)
(* called for psychologist c; each holds its own session, patients list,   *)
(* loop position and risk_analysis list, and the steps of the invocations  *)
(* interleave.  A step is the code between two queries.  The tables are    *)
(* written only while no invocation is in progress: the data stay the same *)
(* from the call of an invocation to its return.                            *)

Rankers == {"ml_services", "ml_sevices"}

\* calculate_patient_risk(db, psychologist_id) is called
calculate_patient_risk_call(c, impl, psychologist_id) ==
    /\ calls[c] = Idle
    /\ calls' = [calls EXCEPT ![c] =
                    [pc |-> "called", impl |-> impl,
                     psychologist_id |-> psychologist_id,
                     patients |-> <<>>, i |-> 1, risk_analysis |-> <<>>,
                     result |-> <<>>]]
    /\ UNCHANGED <<today, patients, appointments, returned, requests>>

\* patients = db.query(Patient)...all(); risk_analysis = []
calculate_patient_risk_patients(c) ==
    /\ calls[c].pc = "called"
    /\ calls' = [calls EXCEPT ![c].pc = "loop",
                              ![c].patients =
                                  QueryPatients(patients,
                                                calls[c].psychologist_id),
                              ![c].i = 1,
                              ![c].risk_analysis = <<>>]
    /\ UNCHANGED <<today, patients, appointments, returned, requests>>

\* a slip: one list for all invocations, as a module-level list would be
shared_risk_analysis(c) ==
    LET others == {d \in Invocations : d # c /\ calls[d] # Idle}
    IN  IF others = {} THEN calls[c].risk_analysis
        ELSE calls[CHOOSE d \in others : TRUE].risk_analysis

\* the list risk_analysis of invocation c, a local of the call
own_risk_analysis(c) == calls[c].risk_analysis

\* one turn of `for patient in patients`: the appointments query, the
\* test for an empty history, the entry appended to risk_analysis
calculate_patient_risk_iteration(c) ==
    /\ calls[c].pc = "loop"
    /\ calls[c].i <= Len(calls[c].patients)
    /\ LET patient == calls[c].patients[calls[c].i]
           apts == QueryAppointments(appointments, patient.id,
                                     calls[c].psychologist_id)
           entry == IF calls[c].impl = "ml_services"
                    THEN ml_services_risk_entry(patient, apts, today)
                    ELSE ml_sevices_risk_entry(patient, apts, today)
       IN  calls' = [calls EXCEPT
                        ![c].i = calls[c].i + 1,
                        ![c].risk_analysis =
                            IF ListIsEmpty(apts) THEN own_risk_analysis(c)
                            ELSE Append(own_risk_analysis(c), entry)]
    /\ UNCHANGED <<today, patients, appointments, returned, requests>>

\* the loop is over: sorted(risk_analysis, ..., reverse=True)
calculate_patient_risk_sorted(c) ==
    /\ calls[c].pc = "loop"
    /\ calls[c].i > Len(calls[c].patients)
    /\ calls' = [calls EXCEPT
                    ![c].pc = "done",
                    ![c].result =
                        SortedByRiskScoreDesc(own_risk_analysis(c))]
    /\ UNCHANGED <<today, patients, appointments, returned, requests>>

\* the caller has taken the sorted list: the invocation is over
calculate_patient_risk_return(c) ==
    /\ calls[c].pc = "done"
    /\ calls' = [calls EXCEPT ![c] = Idle]
    /\ UNCHANGED <<today, patients, appointments, returned, requests>>

ConcurrentWrite ==
    /\ \A c \in Invocations : calls[c] = Idle
    /\ (RosterCreate \/ RosterCancel)

ConcurrentCall ==
    \E c \in Invocations, impl \in Rankers :
        calculate_patient_risk_call(c, impl, c)

ConcurrentStep ==
    \E c \in Invocations :
        \/ calculate_patient_risk_patients(c)
        \/ calculate_patient_risk_iteration(c)
        \/ calculate_patient_risk_sorted(c)
        \/ calculate_patient_risk_return(c)

NextConcurrent == ConcurrentWrite \/ ConcurrentCall \/ ConcurrentStep

SpecConcurrent == Init /\ [][NextConcurrent]_vars

-----------------------------------------------------------------------------
(* SpecSums: a patient with a long history: up to MaxCancelled sessions    *)
(* cancelled three months back and up to two sessions held one or two      *)
(* months back; any row may be cancelled.                                   *)

\* the bag of n rows like row
RECURSIVE Copies(_, _)
Copies(row, n) ==
    IF n = 0 THEN EmptyBag ELSE Copies(row, n - 1) (+) SetToBag({row})

InitSums ==
    /\ today = Today0
    /\ patients = EnginePatients
    /\ returned = NoCall
    /\ requests = EmptyBag
    /\ calls = NoCalls
    /\ \E k \in 0..MaxCancelled, c \in 0..2,
          d \in {Today0 - 60, Today0 - 30} :
           appointments =
               Copies(Appointment(1, 1, Today0 - 90, "09:00", CANCELADO), k)
               (+) Copies(Appointment(1, 1, d, "09:00", CONCLUIDO), c)

NextSums == EngineCancel \/ EngineRank \/ Midnight

SpecSums == InitSums /\ [][NextSums]_vars

-----------------------------------------------------------------------------
(* What the claims speak of. *)

\* the call just made was a roster ranking
Ranked == returned.op \in {"ml_services", "ml_sevices"}

\* the rows of patient p with psychologist psy, as a set
HistoryOf(p, psy) ==
    {r \in BagToSet(appointments) :
        r.patient_id = p /\ r.psychologist_id = psy}

\* the number of rows of patient p with psychologist psy
HistorySize(p, psy) ==
    BagCardinality([r \in HistoryOf(p, psy) |-> appointments[r]])

\* the ranker the call ran, on another database
RankAgain(db) ==
    IF returned.op = "ml_services"
    THEN ml_services_calculate_patient_risk(db, returned.psychologist_id,
                                            today)
    ELSE ml_sevices_calculate_patient_risk(db, returned.psychologist_id,
                                           today)

-----------------------------------------------------------------------------
\* C1: every risk_score a ranking returns lies in 0..100, under the 6-factor
\* and under the 4-factor scorer, also for histories that hold a row dated
\* after today.  (The code returns negative scores: see C1_FutureBooking.)
C1_ScoreInRange ==
    Ranked =>
        \A i \in 1..Len(returned.body) :
            /\ returned.body[i].risk_score >= 0
            /\ returned.body[i].risk_score <= 100

\* A patient seen twice today whose next session is booked a month ahead.
C1_FutureBooking ==
    /\ Ranked
    /\ today = Today0
    /\ appointments =
           SetToBag({Appointment(1, 1, Today0 + 30, "09:00", AGENDADO)})
           (+) SetToBag({Appointment(1, 1, Today0, "09:00", CONCLUIDO)})
           (+) SetToBag({Appointment(1, 1, Today0, "09:00", CONCLUIDO)})
    /\ returned.body[1].risk_score = -15

\* C2: the list a ranking returns is in descending order of risk_score: each
\* entry's score is at least the score of the entry after it.
C2_SortedDescending ==
    Ranked =>
        \A i \in 1..(Len(returned.body) - 1) :
            returned.body[i].risk_score >= returned.body[i + 1].risk_score

\* Two entries of different score, the patient loaded second ranked first.
C2_Witness ==
    /\ Ranked
    /\ Len(returned.body) = 2
    /\ returned.body[1].risk_score > returned.body[2].risk_score
    /\ returned.body[1].id > returned.body[2].id

\* C3: a ranking holds exactly one entry for each patient of the
\* psychologist who has a row with that psychologist, no entry for a patient
\* without one and no entry for anyone else; and taking away the single row
\* of a patient who has only that row shortens the ranking by exactly one.
C3_OneEntryPerHistory ==
    Ranked =>
        LET psy == returned.psychologist_id
            body == returned.body
            entries(p) == {i \in 1..Len(body) : body[i].id = p}
        IN  /\ \A k \in 1..Len(patients) :
                   LET p == patients[k]
                   IN  Cardinality(entries(p.id)) =
                           IF /\ p.psychologist_id = psy
                              /\ HistoryOf(p.id, psy) # {}
                           THEN 1 ELSE 0
            /\ \A i \in 1..Len(body) :
                   \E k \in 1..Len(patients) : patients[k].id = body[i].id
            /\ \A k \in 1..Len(patients), r \in BagToSet(appointments) :
                   (/\ patients[k].psychologist_id = psy
                    /\ HistorySize(patients[k].id, psy) = 1
                    /\ r \in HistoryOf(patients[k].id, psy))
                   => Len(RankAgain(
                          [patients |-> patients,
                           appointments |->
                               appointments (-) SetToBag({r})]))
                        = Len(body) - 1

\* A ranking of the first psychologist, one of whose patients has a single
\* row and the other none.
C3_Witness ==
    /\ Ranked
    /\ returned.psychologist_id = 1
    /\ HistorySize(1, 1) = 1
    /\ HistorySize(2, 1) = 0
    /\ HistoryOf(2, 2) # {}
    /\ Len(returned.body) = 1

-----------------------------------------------------------------------------
\* the tier the thresholds give: 70 and above Alto, 40 to 69 Moderado,
\* below 40 Baixo
TierByLowerBounds(score) ==
    IF score >= 70 THEN ALTO ELSE IF score >= 40 THEN MODERADO ELSE BAIXO

\* the integer scores the classifiers are compared on
ScoreRange == (0 - 60)..160

\* C4: both classifiers map every integer score to the tier its inclusive
\* lower bound gives (39 Baixo, 40 and 69 Moderado, 70 Alto), so they agree
\* on every score, and every entry of a ranking carries the tier of its
\* score.
C4_ClassifierBoundaries ==
    /\ \A s \in ScoreRange :
           /\ ml_services_determine_risk_level(s) = TierByLowerBounds(s)
           /\ ml_sevices_determine_risk_level(s) = TierByLowerBounds(s)
    /\ ml_services_determine_risk_level(39) = BAIXO
    /\ ml_sevices_determine_risk_level(39) = BAIXO
    /\ ml_services_determine_risk_level(40) = MODERADO
    /\ ml_sevices_determine_risk_level(40) = MODERADO
    /\ ml_services_determine_risk_level(69) = MODERADO
    /\ ml_sevices_determine_risk_level(69) = MODERADO
    /\ ml_services_determine_risk_level(70) = ALTO
    /\ ml_sevices_determine_risk_level(70) = ALTO
    /\ Ranked =>
           \A i \in 1..Len(returned.body) :
               returned.body[i].risk =
                   TierByLowerBounds(returned.body[i].risk_score)

\* A ranking whose entry scores exactly 40 and is classified Moderado.
C4_Witness ==
    /\ Ranked
    /\ \E i \in 1..Len(returned.body) :
           /\ returned.body[i].risk_score = 40
           /\ returned.body[i].risk = MODERADO

\* the values one metric is moved over, the others held fixed: days from a
\* month ahead to past the 60-day saturation, rates k/12 from 0 to 1 (every
\* c/t with t up to 4), frequencies k/6 from 0 to 3
DaysRange == (0 - 30)..62
RateSteps == 0..12
FrequencySteps == 0..18

\* both scorers on one metrics record
Scores(metrics) ==
    <<ml_services_calculate_risk_score(metrics),
      ml_sevices_calculate_risk_score(metrics)>>

ScoresLeq(a, b) == a[1] <= b[1] /\ a[2] <= b[2]

\* C5: for the metrics of every entry of a ranking, with the other fields
\* held fixed, both scores are non-decreasing in days_since_last,
\* non-decreasing in cancellation_rate and non-increasing in
\* frequency_per_month: each step up the range of a metric moves neither
\* score the wrong way.
C5_Monotone ==
    Ranked =>
        \A i \in 1..Len(returned.body) :
            LET m == returned.body[i].metrics
                byDays == [d \in DaysRange |->
                              Scores([m EXCEPT !.days_since_last = d])]
                byRate == [k \in RateSteps |->
                              Scores([m EXCEPT
                                         !.cancellation_rate = Rat(k, 12)])]
                byFrequency == [k \in FrequencySteps |->
                                   Scores([m EXCEPT
                                       !.frequency_per_month = Rat(k, 6)])]
            IN  /\ \A d \in DaysRange \ {62} :
                       ScoresLeq(byDays[d], byDays[d + 1])
                /\ \A k \in RateSteps \ {12} :
                       ScoresLeq(byRate[k], byRate[k + 1])
                /\ \A k \in FrequencySteps \ {18} :
                       ScoresLeq(byFrequency[k + 1], byFrequency[k])

\* A ranked patient last seen today with a frequency of 2 a month or more
\* and no cancellation: 60 days of absence, a cancellation rate of 1 and a
\* frequency of 0 each raise both scores.
C5_Witness ==
    /\ Ranked
    /\ \E i \in 1..Len(returned.body) :
           LET m == returned.body[i].metrics
           IN  /\ m.days_since_last = 0
               /\ m.cancellation_rate.num = 0
               /\ ~RatLess(m.frequency_per_month, Rat(2, 1))
               /\ Scores([m EXCEPT !.days_since_last = 60])[1] > Scores(m)[1]
               /\ Scores([m EXCEPT !.days_since_last = 60])[2] > Scores(m)[2]
               /\ Scores([m EXCEPT !.cancellation_rate = Rat(1, 1)])[1]
                      > Scores(m)[1]
               /\ Scores([m EXCEPT !.cancellation_rate = Rat(1, 1)])[2]
                      > Scores(m)[2]
               /\ Scores([m EXCEPT !.frequency_per_month = Rat(0, 1)])[1]
                      > Scores(m)[1]
               /\ Scores([m EXCEPT !.frequency_per_month = Rat(0, 1)])[2]
                      > Scores(m)[2]

\* C6: when the first row of a ranked history is dated after today, so that
\* days_since_last is negative, the recency contribution is 0; under both
\* scorers it is never negative.  (The code does not clamp.)
C6_NegativeDaysClamped ==
    Ranked =>
        \A i \in 1..Len(returned.body) :
            LET m == returned.body[i].metrics
            IN  /\ ml_services_recency(m).num >= 0
                /\ ml_sevices_recency(m).num >= 0
                /\ m.days_since_last < 0 =>
                       /\ ml_services_recency(m).num = 0
                       /\ ml_sevices_recency(m).num = 0

-----------------------------------------------------------------------------
\* the call just made was _extract_patient_metrics on a list
Extracted ==
    returned.op \in {"ml_services_extract", "ml_sevices_extract",
                     "ml_analysis_extract"}

\* the latest date of a list of rows
MaxDate(xs) ==
    CHOOSE d \in {xs[i].date : i \in 1..Len(xs)} :
        \A j \in 1..Len(xs) : d >= xs[j].date

IsDateDescending(xs) ==
    \A i \in 1..(Len(xs) - 1) : xs[i].date >= xs[i + 1].date

\* C7 as stated: for a non-empty list in any order, days_since_last is the
\* number of days from the latest date of the list to today.
C7_LatestDateAnyOrder ==
    (Extracted /\ returned.appointments # <<>>) =>
        returned.metrics.days_since_last =
            today - MaxDate(returned.appointments)

\* C7 amended: for a non-empty list, days_since_last is the number of days
\* from the date of the first row to today; that is the latest date when
\* the list is in descending order of date, as it is in every ranking.
C7_LatestDateWhenDescending ==
    /\ (Extracted /\ returned.appointments # <<>>) =>
           LET apts == returned.appointments
               days == returned.metrics.days_since_last
           IN  /\ days = today - apts[1].date
               /\ IsDateDescending(apts) => days = today - MaxDate(apts)
    /\ Ranked =>
           \A i \in 1..Len(returned.body) :
               LET rows == HistoryOf(returned.body[i].id,
                                     returned.psychologist_id)
                   days == returned.body[i].metrics.days_since_last
               IN  /\ \A r \in rows : days <= today - r.date
                   /\ \E r \in rows : days = today - r.date

\* The extractor called on two rows of different date, the later one first.
C7_Witness ==
    /\ Extracted
    /\ Len(returned.appointments) = 2
    /\ returned.appointments[1].date > returned.appointments[2].date
    /\ returned.metrics.days_since_last =
           today - returned.appointments[1].date

\* the rows of patient p with psychologist psy dated from n days back to
\* today, counted with their multiplicity
WindowCount(p, psy, n) ==
    LET inside == {r \in HistoryOf(p, psy) :
                      today - n <= r.date /\ r.date <= today}
    IN  BagCardinality([r \in inside |-> appointments[r]])

\* C8: appointments_last_30, _60 and _90 are the numbers of rows, of any
\* status, dated within the 30, 60 and 90 days that end today; a row dated
\* after today is counted in none.  (The code counts rows dated after today
\* in all three.)
C8_TrailingWindows ==
    Ranked =>
        \A i \in 1..Len(returned.body) :
            LET e == returned.body[i]
                psy == returned.psychologist_id
            IN  /\ e.metrics.appointments_last_30 = WindowCount(e.id, psy, 30)
                /\ e.metrics.appointments_last_60 = WindowCount(e.id, psy, 60)
                /\ e.metrics.appointments_last_90 = WindowCount(e.id, psy, 90)

\* the table holds ten rows of the patient, five of them cancelled, every
\* one dated more than 90 days before today
InScenario ==
    /\ HistorySize(1, 1) = 10
    /\ BagCardinality(appointments) = 10
    /\ BagCardinality([r \in {x \in HistoryOf(1, 1) : x.status = CANCELADO}
                          |-> appointments[r]]) = 5
    /\ \A r \in HistoryOf(1, 1) : today - r.date > 90

\* C9 as stated: in the scenario the score is at least 70 and the tier Alto,
\* whatever the other five rows are.
C9_ScenarioIsHigh ==
    (Ranked /\ InScenario) =>
        /\ returned.body[1].risk_score >= 70
        /\ returned.body[1].risk = ALTO

\* C9 amended: in the scenario cancellation_rate is 1/2, appointments_last_30
\* is 0, days_since_last is over 90, the score is at least 67 and the tier
\* Moderado or Alto; the score is at least 70 and the tier Alto when
\* frequency_per_month is below 1 and, under the 6-factor scorer, also when
\* no row is AGENDADO.
C9_ScenarioAtLeast67 ==
    (Ranked /\ InScenario) =>
        LET e == returned.body[1]
            m == e.metrics
            high == e.risk_score >= 70 /\ e.risk = ALTO
        IN  /\ Len(returned.body) = 1
            /\ m.cancellation_rate.num * 2 = m.cancellation_rate.den
            /\ m.appointments_last_30 = 0
            /\ m.days_since_last > 90
            /\ e.risk_score >= 67
            /\ e.risk \in {MODERADO, ALTO}
            /\ RatLess(m.frequency_per_month, Rat(1, 1)) => high
            /\ (returned.op = "ml_services" /\ ~m.has_future_appointments)
                   => high

\* The scenario ranked Moderado with a score of 67: five sessions held
\* within the last five months.
C9_Witness ==
    /\ Ranked
    /\ InScenario
    /\ returned.body[1].risk_score = 67
    /\ returned.body[1].risk = MODERADO
    /\ returned.body[1].metrics.completed_appointments = 5

\* the table is one row of the patient, CONCLUIDO and dated today
SingleCompletedToday ==
    \E t \in Times :
        appointments = SetToBag({Appointment(1, 1, today, t, CONCLUIDO)})

\* C10: for a history of one row, CONCLUIDO and dated today, days_since_last
\* is 0, cancellation_rate is 0, appointments_last_30 is 1, the recency and
\* the inactivity contributions are 0 under both scorers and the tier is
\* Baixo.
C10_SingleCompletedToday ==
    (Ranked /\ SingleCompletedToday) =>
        /\ Len(returned.body) = 1
        /\ LET e == returned.body[1]
               m == e.metrics
           IN  /\ m.days_since_last = 0
               /\ m.cancellation_rate.num = 0
               /\ m.appointments_last_30 = 1
               /\ ml_services_recency(m).num = 0
               /\ ml_sevices_recency(m).num = 0
               /\ ml_services_inactivity(m) = 0
               /\ ml_sevices_inactivity(m) = 0
               /\ e.risk = BAIXO
               /\ e.risk_score < 40

\* A ranking of the patient whose only row is a session held today.
C10_Witness ==
    /\ Ranked
    /\ SingleCompletedToday
    /\ Len(returned.body) = 1
    /\ returned.body[1].risk = BAIXO

-----------------------------------------------------------------------------
\* the place of patient id in the order the patients query yields
LoadIndex(id) == CHOOSE k \in 1..Len(patients) : patients[k].id = id

\* C11: a ranking is the list the same ranker yields when run again on the
\* same tables the same day, and entries of equal risk_score stand in the
\* order in which their patients were loaded.
C11_StableOrder ==
    Ranked =>
        /\ returned.body = RankAgain(Db)
        /\ \A i, j \in 1..Len(returned.body) :
               (/\ i < j
                /\ returned.body[i].risk_score = returned.body[j].risk_score)
                   => LoadIndex(returned.body[i].id)
                          < LoadIndex(returned.body[j].id)

\* A ranking of two patients of equal score, the one loaded first on top,
\* though the other was booked first.
C11_Witness ==
    /\ Ranked
    /\ Len(returned.body) = 2
    /\ returned.body[1].risk_score = returned.body[2].risk_score
    /\ returned.body[1].id = 1
    /\ returned.body[2].id = 2

-----------------------------------------------------------------------------
\* C12: the metrics an extractor call returns are, field for field, the
\* metrics each of the three copies of _extract_patient_metrics
\* (services/ml_services.py, services/ml_sevices.py, routers/ml_analysis.py)
\* yields for the same list on the same day, whatever the order of the list.
C12_ExtractorsAgree ==
    Extracted =>
        LET apts == returned.appointments
            a == ml_services_extract_patient_metrics(apts, today)
            b == ml_sevices_extract_patient_metrics(apts, today)
            c == ml_analysis_extract_patient_metrics(apts, today)
        IN  /\ returned.metrics = a
            /\ returned.metrics = b
            /\ returned.metrics = c
            /\ \A f \in DOMAIN a : a[f] = b[f] /\ b[f] = c[f]

\* The copy of routers/ml_analysis.py called on a list of a cancelled and a
\* held session, where every metric has its say.
C12_Witness ==
    /\ returned.op = "ml_analysis_extract"
    /\ Len(returned.appointments) >= 2
    /\ returned.metrics.canceled_appointments >= 1
    /\ returned.metrics.completed_appointments >= 1
    /\ returned.metrics = ml_services_extract_patient_metrics(
                              returned.appointments, today)

-----------------------------------------------------------------------------
\* metrics records over the corners of each factor, built on a record m
CornerMetrics(m) ==
    {[m EXCEPT !.days_since_last = d, !.cancellation_rate = r,
               !.frequency_per_month = f, !.appointments_last_30 = a,
               !.appointments_last_60 = b, !.recent_trend = t,
               !.has_future_appointments = h] :
        d \in {0 - 30, 0, 59, 60, 999},
        r \in {Rat(0, 1), Rat(1, 2), Rat(1, 1)},
        f \in {Rat(0, 1), Rat(1, 1), Rat(2, 1)},
        a \in 0..1, b \in 0..1, t \in (0 - 2)..0, h \in BOOLEAN}

\* C13 as stated: before the final clamp the contributions sum to at most
\* 90 under the 4-factor scorer and to at most 100 under the 6-factor
\* scorer, for the metrics of every entry of a ranking.
C13_SumsAtMost90And100 ==
    Ranked =>
        \A i \in 1..Len(returned.body) :
            LET m == returned.body[i].metrics
            IN  /\ RatLeq(ml_sevices_score_sum(m), Rat(90, 1))
                /\ RatLeq(ml_services_score_sum(m), Rat(100, 1))

\* C13 amended: before the final clamp the contributions sum to at most 90
\* under the 4-factor scorer and to at most 105 under the 6-factor scorer,
\* for the metrics of every entry of a ranking and for metrics at the
\* corners of every factor; the score returned is at most 100.
C13_SumsAtMost90And105 ==
    Ranked =>
        \A i \in 1..Len(returned.body) :
            LET m == returned.body[i].metrics
            IN  /\ RatLeq(ml_sevices_score_sum(m), Rat(90, 1))
                /\ RatLeq(ml_services_score_sum(m), Rat(105, 1))
                /\ returned.body[i].risk_score <= 100
                /\ \A c \in CornerMetrics(m) :
                       /\ RatLeq(ml_sevices_score_sum(c), Rat(90, 1))
                       /\ RatLeq(ml_services_score_sum(c), Rat(105, 1))
                       /\ ml_sevices_calculate_risk_score(c) <= 100
                       /\ ml_services_calculate_risk_score(c) <= 100

\* A ranking whose entry sums to over 100 under the 6-factor scorer and to
\* 90 or less under the 4-factor scorer, and scores 100 at most.
C13_Witness ==
    /\ Ranked
    /\ Len(returned.body) = 1
    /\ RatLess(Rat(100, 1),
               ml_services_score_sum(returned.body[1].metrics))
    /\ RatLeq(ml_sevices_score_sum(returned.body[1].metrics), Rat(90, 1))
    /\ returned.body[1].risk_score <= 100

-----------------------------------------------------------------------------
\* the list the ranker of invocation c yields when it runs alone, start to
\* end, on the tables as they are
RunAlone(c) ==
    IF calls[c].impl = "ml_services"
    THEN ml_services_calculate_patient_risk(Db, calls[c].psychologist_id,
                                            today)
    ELSE ml_sevices_calculate_patient_risk(Db, calls[c].psychologist_id,
                                           today)

\* C14: whatever the interleaving of the steps of the invocations, the list
\* an invocation is about to return is the list it yields when run alone on
\* the same tables, and while it loops its list holds entries of patients
\* of its own psychologist only.
C14_EachAsAlone ==
    \A c \in Invocations :
        /\ calls[c] # Idle =>
               \A k \in 1..Len(calls[c].risk_analysis) :
                   \E p \in 1..Len(patients) :
                       /\ patients[p].id = calls[c].risk_analysis[k].id
                       /\ patients[p].psychologist_id =
                              calls[c].psychologist_id
        /\ (calls[c] # Idle /\ calls[c].pc = "done") =>
               calls[c].result = RunAlone(c)

\* Invocation 1 is about to return two entries while invocation 2, called
\* before it ended, has appended an entry and has not sorted yet.
C14_Witness ==
    /\ calls[1] # Idle
    /\ calls[1].pc = "done"
    /\ Len(calls[1].result) = 2
    /\ calls[2] # Idle
    /\ calls[2].pc = "loop"
    /\ Len(calls[2].risk_analysis) = 1

-----------------------------------------------------------------------------
\* the call just made was a ranking by services/ml_sevices.py
RankedFirstMatch == returned.op = "ml_sevices"

\* the message the first-match identifier falls back to
FirstMatchFallback == "Risco moderado, manter acompanhamento"

\* C15 as stated: the first-match identifier returns its fallback message
\* exactly when none of the listed conditions matches: absence of over 30
\* days, a cancellation rate over the threshold, fewer than one session a
\* month, no appointment in the last 30 days, a negative trend, no future
\* appointment.
C15_FallbackWhenNothingListed ==
    RankedFirstMatch =>
        \A i \in 1..Len(returned.body) :
            LET m == returned.body[i].metrics
                listed ==
                    \/ m.days_since_last > 30
                    \/ RatLess(Rat(4, 10), m.cancellation_rate)
                    \/ RatLess(m.frequency_per_month, Rat(1, 1))
                    \/ m.appointments_last_30 = 0
                    \/ m.recent_trend < 0
                    \/ ~m.has_future_appointments
            IN  (returned.body[i].reason = FirstMatchFallback) <=> ~listed

\* C15 amended: the identifier tests five conditions in order (absence of
\* over 60 days, cancellation rate over 0.4, fewer than one session a month,
\* no appointment in the last 30 days, negative trend), returns the
\* message of the first that matches and its fallback message exactly when
\* none of the five matches; the absence of a future appointment and
\* absences of 31 to 60 days are not among its conditions.
C15_FirstMatchOfFive ==
    RankedFirstMatch =>
        \A i \in 1..Len(returned.body) :
            LET m == returned.body[i].metrics
                r == returned.body[i].reason
                c1 == m.days_since_last > 60
                c2 == RatLess(Rat(4, 10), m.cancellation_rate)
                c3 == RatLess(m.frequency_per_month, Rat(1, 1))
                c4 == m.appointments_last_30 = 0
                c5 == m.recent_trend < 0
            IN  /\ (r = "Paciente há muito tempo sem consulta") <=> c1
                /\ (r = "Alta taxa de cancelamentos") <=> (~c1 /\ c2)
                /\ (r = "Baixa frequência de sessões")
                       <=> (~c1 /\ ~c2 /\ c3)
                /\ (r = "Nenhuma consulta recente")
                       <=> (~c1 /\ ~c2 /\ ~c3 /\ c4)
                /\ (r = "Queda na frequência de atendimentos")
                       <=> (~c1 /\ ~c2 /\ ~c3 /\ ~c4 /\ c5)
                /\ (r = FirstMatchFallback)
                       <=> (~c1 /\ ~c2 /\ ~c3 /\ ~c4 /\ ~c5)

\* A ranking whose entry matches both the cancellation and the frequency
\* condition and carries the message of the cancellation rate, the first of
\* the two.
C15_Witness ==
    /\ RankedFirstMatch
    /\ Len(returned.body) = 1
    /\ returned.body[1].metrics.days_since_last <= 60
    /\ RatLess(Rat(4, 10), returned.body[1].metrics.cancellation_rate)
    /\ RatLess(returned.body[1].metrics.frequency_per_month, Rat(1, 1))
    /\ returned.body[1].reason = "Alta taxa de cancelamentos"

-----------------------------------------------------------------------------
\* the call just made was a ranking by services/ml_services.py
RankedAccumulating == returned.op = "ml_services"

\* the texts of a list, from the first on, with ", " between them
RECURSIVE CommaSeparated(_)
CommaSeparated(texts) ==
    IF Len(texts) = 1 THEN texts[1]
    ELSE texts[1] \o ", " \o CommaSeparated(Tail(texts))

\* C16: the accumulating identifier returns the explanations of all the
\* conditions that match, in the fixed order (absence over 45 days, else
\* over 30; cancellation rate over 0.3, else over 0.2; fewer than one
\* session a month; no appointment in the last 30 days; trend below -1; no
\* future appointment), separated by ", ", and the neutral message exactly
\* when no condition matches.
C16_AllMatchingJoined ==
    RankedAccumulating =>
        \A i \in 1..Len(returned.body) :
            LET m == returned.body[i].metrics
                slots ==
                    <<IF m.days_since_last > 45
                      THEN "Ausente há mais de 45 dias"
                      ELSE IF m.days_since_last > 30
                      THEN "Ausente há mais de 30 dias" ELSE "",
                      IF RatLess(Rat(3, 10), m.cancellation_rate)
                      THEN "Alta taxa de cancelamentos"
                      ELSE IF RatLess(Rat(2, 10), m.cancellation_rate)
                      THEN "Cancelamentos frequentes" ELSE "",
                      IF RatLess(m.frequency_per_month, Rat(1, 1))
                      THEN "Baixa frequência de consultas" ELSE "",
                      IF m.appointments_last_30 = 0
                      THEN "Sem consultas no último mês" ELSE "",
                      IF m.recent_trend < -1
                      THEN "Diminuição na frequência" ELSE "",
                      IF ~m.has_future_appointments
                      THEN "Sem consultas futuras" ELSE "">>
                matching == SelectSeq(slots, LAMBDA t : t # "")
                neutral == "Sem motivos críticos identificados"
            IN  /\ (returned.body[i].reason = neutral) <=> (matching = <<>>)
                /\ matching # <<>> =>
                       returned.body[i].reason = CommaSeparated(matching)

\* A ranking whose entry carries three explanations, in the fixed order.
C16_Witness ==
    /\ RankedAccumulating
    /\ Len(returned.body) = 1
    /\ returned.body[1].metrics.recent_trend >= -1
    /\ returned.body[1].reason =
           "Alta taxa de cancelamentos, Baixa frequência de consultas, "
               \o "Sem consultas futuras"

-----------------------------------------------------------------------------
\* C17: every slot that get_available_slots has just returned for a
\* psychologist and a date can be booked: create_appointment for that
\* psychologist, date and time, called before any write, stores the row and
\* is not rejected.  (The code rejects it when the psychologist has another
\* hour of that date booked.)
C17_OfferedSlotCanBeBooked ==
    returned.op = "get_available_slots" =>
        \A k \in 1..Len(returned.body) :
            ENABLED create_appointment(
                        [patient_id |-> 1,
                         psychologist_id |-> returned.psychologist_id,
                         date |-> returned.date,
                         time |-> returned.body[k]])

\* the rows AGENDADO of the psychologist, date and time of row r, counted
\* with their multiplicity
BookedLike(r) ==
    LET same == {x \in BagToSet(appointments) :
                    /\ x.status = AGENDADO
                    /\ x.psychologist_id = r.psychologist_id
                    /\ x.date = r.date
                    /\ x.time = r.time}
    IN  BagCardinality([x \in same |-> appointments[x]])

-----------------------------------------------------------------------------
\* the rows PENDENTE of one patient for one psychologist, counted with
\* their multiplicity
PendingOf(e, psy) ==
    LET pending == {r \in BagToSet(requests) :
                       /\ r.patient_email = e
                       /\ r.preferred_psychologist = psy
                       /\ r.status = PENDENTE}
    IN  BagCardinality([r \in pending |-> requests[r]])

\* C19: there is at most one request PENDENTE for any patient email and
\* preferred psychologist.  (update_request_status sets an answered request
\* PENDENTE again beside a newer one.)
C19_OnePendingPerPair ==
    \A e \in Emails, psy \in 1..2 : PendingOf(e, psy) <= 1

-----------------------------------------------------------------------------
\* C20: under services/ml_services.py an entry whose reason is the neutral
\* message scores below 40 and is ranked Baixo; an entry ranked Moderado or
\* Alto carries at least one concrete reason.
C20_NeutralReasonIsLow ==
    RankedAccumulating =>
        \A i \in 1..Len(returned.body) :
            LET e == returned.body[i]
                neutral == "Sem motivos críticos identificados"
            IN  /\ e.reason = neutral =>
                       (e.risk_score < 40 /\ e.risk = BAIXO)
                /\ e.risk \in {MODERADO, ALTO} => e.reason # neutral

\* A ranking whose entry carries the neutral message: a patient seen of
\* late and often, with a session booked.
C20_Witness ==
    /\ RankedAccumulating
    /\ Len(returned.body) = 1
    /\ returned.body[1].reason = "Sem motivos críticos identificados"
    /\ returned.body[1].metrics.has_future_appointments
    /\ returned.body[1].risk = BAIXO

\* C21: in every metrics record of a ranking, appointments_last_30 <=
\* appointments_last_60 <= appointments_last_90 <= total_appointments, so
\* the inactivity term of either scorer is 0 or 15 and never 10: the
\* "no row in the last 60 days" branch is not taken.
C21_WindowsNested ==
    Ranked =>
        \A i \in 1..Len(returned.body) :
            LET metrics == returned.body[i].metrics
            IN  /\ metrics.appointments_last_30 <= metrics.appointments_last_60
                /\ metrics.appointments_last_60 <= metrics.appointments_last_90
                /\ metrics.appointments_last_90 <= metrics.total_appointments
                /\ ml_services_inactivity(metrics) \in {0, 15}
                /\ ml_sevices_inactivity(metrics) \in {0, 15}

\* A ranking of a patient with a row in the last 30 days, an older one in
\* the last 60 and one older than 90 days: the inactivity term is 0.
C21_Witness ==
    /\ Ranked
    /\ Len(returned.body) = 1
    /\ LET metrics == returned.body[1].metrics
       IN  /\ 0 < metrics.appointments_last_30
           /\ metrics.appointments_last_30 < metrics.appointments_last_60
           /\ metrics.appointments_last_90 < metrics.total_appointments
           /\ ml_services_inactivity(metrics) = 0

====
